---- MODULE Spec2Model ----
(***************************************************************************)
(* A model of nbodykit/io/__init__.py: the module function get_slice_size  *)
(* and the abstract file object FileType (its columns/shape/keys           *)
(* accessors, __getitem__ and asarray).                                    *)
(*                                                                         *)
(* Objects live in the heap `views` (a sequence; an object's id is its     *)
(* position, id 1 is the root file that a backend constructed).  `last`    *)
(* records the most recent call and its outcome: what was returned or      *)
(* which exception was raised, and the physical read that was dispatched.  *)
(***************************************************************************)
EXTENDS Integers, Sequences, FiniteSets, TLC

VARIABLES views, last

vars == <<views, last>>

(* ------------------------------ bounds --------------------------------- *)

\* rows in the root file
RootSize == 2
\* derived views the caller keeps
MaxViews == 2
\* length of a list-of-names key
MaxSel == 2
\* magnitude of an integer index and of a slice's start and stop
MaxIdx == 3
\* largest slice step
MaxStep == 2
\* largest start/stop/step handed to get_slice_size
MaxN == 10

(* --------------------------- Python values ----------------------------- *)

\* Python's None for an optional value is the empty sequence, Some(x) is <<x>>
None == <<>>

Some(x) == <<x>>

Max(a, b) == IF a >= b THEN a ELSE b

Min(a, b) == IF a <= b THEN a ELSE b

\* Python's divmod (floor division), for any sign of the divisor b # 0
divmod(a, b) ==
    IF b > 0 THEN [q |-> a \div b, r |-> a % b]
    ELSE [q |-> (-a) \div (-b), r |-> -((-a) % (-b))]

(* --------------------------- get_slice_size ---------------------------- *)

\* get_slice_size without the extra element for a remainder
get_slice_size_floor(start, stop, step) == divmod(stop - start, step).q

get_slice_size(start, stop, step) ==
    LET d == divmod(stop - start, step)
    IN IF d.r # 0 THEN d.q + 1 ELSE d.q

(* ------------------------------ dtypes --------------------------------- *)

\* a numpy dtype: structured (named fields, each with a base scalar type and
\* a sub-shape) or a plain scalar type (names is None, len() is 0)
Field(n, b, s) == [name |-> n, base |-> b, shape |-> s]

StructDtype(fs) == [structured |-> TRUE, fields |-> fs, base |-> "void"]

ScalarDtype(b) == [structured |-> FALSE, fields |-> <<>>, base |-> b]

\* dtype.names of a structured dtype
names(dt) == [i \in DOMAIN dt.fields |-> dt.fields[i].name]

\* len(dtype): the number of named fields
dlen(dt) == Len(dt.fields)

\* dtype[col]
field(dt, col) == dt.fields[CHOOSE i \in DOMAIN dt.fields : dt.fields[i].name = col]

InSeq(x, s) == \E i \in DOMAIN s : s[i] = x

NoDup(s) == \A i, j \in DOMAIN s : s[i] = s[j] => i = j

(* ------------------------------- keys ---------------------------------- *)

\* what a caller may put between the brackets of view[...]
StrKey(n) == [t |-> "str", name |-> n]

ListKey(l) == [t |-> "list", items |-> l]

IntKey(i) == [t |-> "int", i |-> i]

\* slice(start, stop, step); each part is None or Some(integer)
SliceKey(a, b, c) == [t |-> "slice", start |-> a, stop |-> b, step |-> c]

TupleKey(es) == [t |-> "tuple", elems |-> es]

\* an index of an unsupported type (a float, for instance)
OtherKey == [t |-> "other"]

\* the slice written ":"
FullSlice == SliceKey(None, None, None)

\* a list item that is not a string (an integer put in a list of names)
NonString == "<int>"

\* isinstance(k, string_types)
IsString(k) == k # NonString

(* --------------------------- call outcomes ----------------------------- *)

\* a raised exception: its type, and which raise statement it came from
Raise(exc, why, inv, rd) ==
    [status |-> exc, err |-> why, invalid |-> inv, obj |-> None,
     read |-> rd, value |-> None]

\* a returned derived view
ReturnView(o) ==
    [status |-> "ok", err |-> "", invalid |-> <<>>, obj |-> Some(o),
     read |-> None, value |-> None]

\* a returned array, after the physical read rd
ReturnArray(rd, v) ==
    [status |-> "ok", err |-> "", invalid |-> <<>>, obj |-> None,
     read |-> rd, value |-> Some(v)]

(* ------------------------- FileType accessors -------------------------- *)

\* a file object: dtype and size are the required attributes; cols_ and
\* shape_ are the optional _columns and _shape, base the optional owner
\* (0 when the attribute is absent)
FileObject(i, dt, n, c, sh, b) ==
    [id |-> i, dtype |-> dt, size |-> n, cols_ |-> c, shape_ |-> sh, base |-> b]

columns(self) ==
    IF self.cols_ # None THEN self.cols_[1] ELSE names(self.dtype)

ncol(self) == Len(columns(self))

shape(self) ==
    IF self.shape_ # None THEN self.shape_[1] ELSE <<self.size>>

keys(self) == columns(self)

\* OwnerOf taking the object at hand as the owner, whatever its base
OwnerOf_self(self) == self.id

\* the owner of the underlying memory, as both __getitem__ and asarray set it
OwnerOf(self) == IF self.base # 0 THEN self.base ELSE self.id

(* ------------------------------ asarray -------------------------------- *)

\* the second axis of the shape
subshape(dt) == IF dlen(dt) = 1 THEN dt.fields[1].shape ELSE <<dlen(dt)>>

\* asarray without the check for vector fields among several
asarray_novector(self, newid) ==
    LET dt == self.dtype
    IN IF dlen(dt) = 0
       THEN Raise("ValueError", "no named fields", <<>>, None)
       ELSE IF \E i \in DOMAIN dt.fields : dt.fields[i].base # dt.fields[1].base
       THEN Raise("ValueError", "different types", <<>>, None)
       ELSE ReturnView(FileObject(newid, ScalarDtype(dt.fields[1].base),
                                  self.size, Some(keys(self)),
                                  Some(<<self.size>> \o subshape(dt)),
                                  OwnerOf(self)))

asarray(self, newid) ==
    LET dt == self.dtype
    IN IF dlen(dt) = 0
       THEN Raise("ValueError", "no named fields", <<>>, None)
       ELSE IF dlen(dt) > 1
               /\ \E i \in DOMAIN dt.fields : Len(dt.fields[i].shape) # 0
       THEN Raise("ValueError", "multiple vector", <<>>, None)
       ELSE IF \E i \in DOMAIN dt.fields : dt.fields[i].base # dt.fields[1].base
       THEN Raise("ValueError", "different types", <<>>, None)
       ELSE ReturnView(FileObject(newid, ScalarDtype(dt.fields[1].base),
                                  self.size, Some(keys(self)),
                                  Some(<<self.size>> \o subshape(dt)),
                                  OwnerOf(self)))

(* --------------------------- the backend ------------------------------- *)

\* the number of scalars in one element of a field
RECURSIVE Prod(_)
Prod(sh) == IF sh = <<>> THEN 1 ELSE sh[1] * Prod(Tail(sh))

\* the position of a column in the file on disk
FieldIndex(root, col) ==
    CHOOSE i \in DOMAIN root.dtype.fields : root.dtype.fields[i].name = col

\* the file's content: scalar e of column col in row r (rows count from 0)
Cell(root, r, col, e) == 100 * r + 10 * FieldIndex(root, col) + e

\* the row numbers start, start+step, ... strictly below stop
RECURSIVE RowRange(_, _, _)
RowRange(start, stop, step) ==
    IF start >= stop THEN <<>>
    ELSE <<start>> \o RowRange(start + step, stop, step)

\* the contract under which a backend's read returns data
ReadContract(root, cols, start, stop, step) ==
    /\ cols # <<>>
    /\ \A i \in DOMAIN cols : InSeq(cols[i], names(root.dtype))
    /\ 0 <= start /\ start <= stop /\ stop <= root.size
    /\ step >= 1

\* read(columns, start, stop, step) of the root: a structured array, one
\* record per row, one entry per requested column, in the requested order
read(root, cols, start, stop, step) ==
    IF ~ReadContract(root, cols, start, stop, step)
    THEN [status |-> "IOError", rows |-> <<>>]
    ELSE LET rr == RowRange(start, stop, step)
         IN [status |-> "ok",
             rows |-> [k \in DOMAIN rr |->
                        [c \in DOMAIN cols |->
                          [e \in 1..Prod(field(root.dtype, cols[c]).shape) |->
                            Cell(root, rr[k], cols[c], e)]]]]

\* the call as the view dispatches it: which object, and the arguments
ReadCall(on, cols, start, stop, step) ==
    [on |-> on, columns |-> cols, start |-> start, stop |-> stop, step |-> step]

(* ------------------------- numpy array helpers ------------------------- *)

RECURSIVE Concat(_)
Concat(ss) == IF ss = <<>> THEN <<>> ELSE ss[1] \o Concat(Tail(ss))

\* structured.view(scalar dtype): the records' scalars in memory order
ViewFlat(rows) == Concat([k \in DOMAIN rows |-> Concat(rows[k])])

\* flat.reshape((-1, n)) is possible
CanReshape(flat, n) == n > 0 /\ Len(flat) % n = 0

\* Reshape filling the result column by column
Reshape_columnmajor(flat, n) ==
    [k \in 1..(Len(flat) \div n) |->
        [j \in 1..n |-> flat[(j - 1) * (Len(flat) \div n) + k]]]

\* flat.reshape((-1, n)): row-major rows of n scalars
Reshape(flat, n) ==
    [k \in 1..(Len(flat) \div n) |-> [j \in 1..n |-> flat[(k - 1) * n + j]]]

\* slice.indices(length) for a step that is not zero
slice_indices(sl, length) ==
    LET step == IF sl.step = None THEN 1 ELSE sl.step[1]
        lower == IF step < 0 THEN -1 ELSE 0
        upper == IF step < 0 THEN length - 1 ELSE length
        clip(x) == IF x < 0 THEN Max(x + length, lower) ELSE Min(x, upper)
        start == IF sl.start = None THEN (IF step < 0 THEN upper ELSE lower)
                 ELSE clip(sl.start[1])
        stop == IF sl.stop = None THEN (IF step < 0 THEN lower ELSE upper)
                ELSE clip(sl.stop[1])
    IN [start |-> start, stop |-> stop, step |-> step]

\* the positions range(start, stop, step) visits, for either sign of step
RECURSIVE PyRange(_, _, _)
PyRange(start, stop, step) ==
    IF (step > 0 /\ start >= stop) \/ (step < 0 /\ start <= stop) THEN <<>>
    ELSE <<start>> \o PyRange(start + step, stop, step)

\* array2d[:, idx]: the second axis indexed by an integer or a slice
SecondAxis(m, n, idx, rd) ==
    IF idx.t = "int"
    THEN IF idx.i >= -n /\ idx.i < n
         THEN LET j == IF idx.i < 0 THEN idx.i + n ELSE idx.i
              IN ReturnArray(rd, [k \in DOMAIN m |-> m[k][j + 1]])
         ELSE Raise("IndexError", "second axis out of bounds", <<>>, rd)
    ELSE IF idx.t = "slice"
    THEN IF idx.step = Some(0)
         THEN Raise("ValueError", "slice step cannot be zero", <<>>, rd)
         ELSE LET t == slice_indices(idx, n)
                  pos == PyRange(t.start, t.stop, t.step)
              IN ReturnArray(rd, [k \in DOMAIN m |->
                                   [j \in DOMAIN pos |-> m[k][pos[j] + 1]]])
    ELSE Raise("IndexError", "second axis index not understood", <<>>, rd)

(* ----------------------------- __getitem__ ---------------------------- *)

\* `s not in self.keys()` with s the requested LIST: Python compares the list
\* with each key, a string, and a list never equals a string
PyListEqStr(l, k) == FALSE

ListInKeys(s, ks) == \E i \in DOMAIN ks : PyListEqStr(s, ks[i])

\* invalid = [col for col in s if s not in self.keys()]
invalid_keys(s, ks) ==
    LET Keep(col) == ~ListInKeys(s, ks) IN SelectSeq(s, Keep)

\* numpy.dtype([(col, self.dtype[col]) for col in s]); numpy refuses a field
\* name that occurs more than once (ValueError)
select_dtype(dt, s) == StructDtype([i \in DOMAIN s |-> field(dt, s[i])])

\* dispatch passing the columns of the owner of the memory
dispatch_ownercolumns(self, start, stop, step) ==
    ReadCall(OwnerOf(self), keys(views[OwnerOf(self)]), start, stop, step)

\* the owner and the arguments of the physical read of a row range
dispatch(self, start, stop, step) ==
    ReadCall(OwnerOf(self), keys(self), start, stop, step)

\* the post-read reinterpretation of the buffer and the second-axis slice
postread(self, rows, second, rd) ==
    IF dlen(self.dtype) = 0
    THEN LET flat == ViewFlat(rows)
         IN IF Len(shape(self)) > 1
            THEN IF ~CanReshape(flat, shape(self)[2])
                 THEN Raise("ValueError", "error trying to view", <<>>, rd)
                 ELSE LET m == Reshape(flat, shape(self)[2])
                      IN IF second # None
                         THEN SecondAxis(m, shape(self)[2], second[1], rd)
                         ELSE ReturnArray(rd, m)
            ELSE IF second # None
                 THEN Raise("IndexError", "too many indices for array", <<>>, rd)
                 ELSE ReturnArray(rd, flat)
    ELSE IF second # None
         THEN Raise("IndexError", "too many indices for array", <<>>, rd)
         ELSE ReturnArray(rd, rows)

\* the read over the desired row range, by self or by its base
readrows(self, start, stop, step, second) ==
    LET rd == dispatch(self, start, stop, step)
        res == read(views[rd.on], rd.columns, rd.start, rd.stop, rd.step)
    IN IF res.status # "ok"
       THEN Raise("IOError", "backend", <<>>, Some(rd))
       ELSE postread(self, res.rows, second, Some(rd))

\* int_range leaving a negative index as it is
int_range_nowrap(self, i) == [start |-> i, stop |-> i + 1, step |-> 1]

\* the row range of an integer index
int_range(self, i) ==
    LET k == IF i < 0 THEN i + self.size ELSE i
    IN [start |-> k, stop |-> k + 1, step |-> 1]

\* an integer or a slice on the row axis
rowindex(self, s, second) ==
    IF s.t = "int"
    THEN LET t == int_range(self, s.i)
         IN readrows(self, t.start, t.stop, t.step, second)
    ELSE IF s.t = "slice"
    THEN IF s.step = Some(0)
         THEN Raise("ValueError", "slice step cannot be zero", <<>>, None)
         ELSE LET t == slice_indices(s, self.size)
              IN readrows(self, t.start, t.stop, t.step, second)
    ELSE Raise("IndexError", "index not understood", <<>>, None)

\* select without the check that the dtype has fields: a valid name then
\* reaches self.dtype[col], which has no fields to look up (KeyError)
select_nofieldcheck(self, s, single, newid) ==
    IF \E i \in DOMAIN s : ~IsString(s[i])
    THEN Raise("IndexError", "string keys should be one of", <<>>, None)
    ELSE IF \E i \in DOMAIN s : ~InSeq(s[i], keys(self))
    THEN Raise("IndexError", "invalid string keys", invalid_keys(s, keys(self)), None)
    ELSE IF ~self.dtype.structured /\ s # <<>>
    THEN Raise("KeyError", "there are no fields in dtype", <<>>, None)
    ELSE IF ~NoDup(s)
    THEN Raise("ValueError", "field occurs more than once", <<>>, None)
    ELSE LET obj == FileObject(newid, select_dtype(self.dtype, s), self.size,
                               None, None, OwnerOf(self))
         IN IF Len(s) = 1 /\ single THEN asarray(obj, newid) ELSE ReturnView(obj)

\* a list of column names (a single name is the list of it, then asarray)
select(self, s, single, newid) ==
    IF \E i \in DOMAIN s : ~IsString(s[i])
    THEN Raise("IndexError", "string keys should be one of", <<>>, None)
    ELSE IF ~self.dtype.structured
    THEN Raise("IndexError", "after asarray", <<>>, None)
    ELSE IF \E i \in DOMAIN s : ~InSeq(s[i], keys(self))
    THEN Raise("IndexError", "invalid string keys", invalid_keys(s, keys(self)), None)
    ELSE IF ~NoDup(s)
    THEN Raise("ValueError", "field occurs more than once", <<>>, None)
    ELSE LET obj == FileObject(newid, select_dtype(self.dtype, s), self.size,
                               None, None, OwnerOf(self))
         IN IF Len(s) = 1 /\ single THEN asarray(obj, newid) ELSE ReturnView(obj)

\* tupleindex without the check of the tuple's length against the rank
tupleindex_norank(self, es) ==
    IF Len(es) = 1 THEN rowindex(self, es[1], None)
    ELSE IF Len(es) = 2 THEN rowindex(self, es[1], Some(es[2]))
    ELSE Raise("IndexError", "tuple index not understood", <<>>, None)

\* a tuple: an index for each dimension
tupleindex(self, es) ==
    IF Len(es) > Len(shape(self))
    THEN Raise("IndexError", "file dimension", <<>>, None)
    ELSE IF Len(es) = 1 THEN rowindex(self, es[1], None)
    ELSE IF Len(es) = 2 THEN rowindex(self, es[1], Some(es[2]))
    ELSE Raise("IndexError", "tuple index not understood", <<>>, None)

getitem(self, key, newid) ==
    IF key.t = "str" THEN select(self, <<key.name>>, TRUE, newid)
    ELSE IF key.t = "list" THEN select(self, key.items, FALSE, newid)
    ELSE IF key.t = "tuple" THEN tupleindex(self, key.elems)
    ELSE rowindex(self, key, None)

(* ------------------------------ the files ------------------------------ *)

\* two files a backend may open: three scalar columns of two types, and two
\* scalar columns with a vector column of the same scalar type
DtypeA == StructDtype(<<Field("a", "f4", <<>>), Field("b", "f4", <<>>),
                        Field("n", "i4", <<>>)>>)

DtypeB == StructDtype(<<Field("a", "f4", <<>>), Field("b", "f4", <<>>),
                        Field("p", "f4", <<2>>)>>)

\* a root file object: size and dtype set by the backend, nothing else
Root(dt) == FileObject(1, dt, RootSize, None, None, 0)

(* ------------------------------ the keys ------------------------------- *)

SeqsUpTo(S, n) == UNION {[1..k -> S] : k \in 0..n}

\* the names a caller asks for: the file's columns and one that is none
NameChoices == {views[1].dtype.fields[i].name : i \in DOMAIN views[1].dtype.fields}
               \cup {"zzz"}

ListChoices == SeqsUpTo(NameChoices \cup {NonString}, MaxSel)

IdxChoices == (-MaxIdx)..MaxIdx

OptIdx == {None} \cup {Some(i) : i \in IdxChoices}

OptStep == {None} \cup {Some(i) : i \in (-MaxStep)..MaxStep}

SliceChoices == {SliceKey(a, b, c) : a \in OptIdx, b \in OptIdx, c \in OptStep}

\* the elements of a tuple key: the row axis, the second axis, a third
TupleRows == {IntKey(0), IntKey(-1), FullSlice, OtherKey}

TupleSeconds == {IntKey(j) : j \in (-1)..MaxSel} \cup {FullSlice, OtherKey}

TupleChoices ==
    {<<>>} \cup {<<r>> : r \in TupleRows}
    \cup {<<r, c>> : r \in TupleRows, c \in TupleSeconds}
    \cup {<<r, c, IntKey(0)>> : r \in TupleRows, c \in TupleSeconds}

(* ------------------------------ the calls ------------------------------ *)

NoCall ==
    [op |-> "none", self |-> 0, key |-> OtherKey, status |-> "none", err |-> "",
     invalid |-> <<>>, obj |-> None, read |-> None, value |-> None]

\* the record of a call on self and of what came out of it
Called(op, self, key, out) ==
    [op |-> op, self |-> self, key |-> key, status |-> out.status,
     err |-> out.err, invalid |-> out.invalid, obj |-> out.obj,
     read |-> out.read, value |-> out.value]

\* Store filling in the object at hand instead of a new one (obj = self)
Store_inplace(vs, self, out) ==
    IF out.obj = None THEN vs
    ELSE Append([vs EXCEPT ![self] = [out.obj[1] EXCEPT !.id = self]], out.obj[1])

\* object.__new__(self.__class__): a returned view is a new object
Store(vs, self, out) ==
    IF out.obj = None THEN vs ELSE Append(vs, out.obj[1])

\* the caller calls on the root or on the view it holds
Selves == DOMAIN views

\* room for the returned view beside the root and the views still held
CanKeep(self, out) == out.obj = None \/ Len(views) <= MaxViews

\* the caller makes one call at a time, and takes its outcome before the next
Call(op, self, key, out) ==
    /\ last.op = "none"
    /\ CanKeep(self, out)
    /\ views' = Store(views, self, out)
    /\ last' = Called(op, self, key, out)

NewId == Len(views) + 1

GetItemString ==
    \E self \in Selves, n \in NameChoices :
        Call("getitem", self, StrKey(n), getitem(views[self], StrKey(n), NewId))

GetItemList ==
    \E self \in Selves, l \in ListChoices :
        Call("getitem", self, ListKey(l), getitem(views[self], ListKey(l), NewId))

GetItemInt ==
    \E self \in Selves, i \in IdxChoices :
        Call("getitem", self, IntKey(i), getitem(views[self], IntKey(i), NewId))

GetItemSlice ==
    \E self \in Selves, k \in SliceChoices :
        Call("getitem", self, k, getitem(views[self], k, NewId))

GetItemTuple ==
    \E self \in Selves, es \in TupleChoices :
        Call("getitem", self, TupleKey(es), getitem(views[self], TupleKey(es), NewId))

GetItemOther ==
    \E self \in Selves :
        Call("getitem", self, OtherKey, getitem(views[self], OtherKey, NewId))

AsArray ==
    \E self \in Selves :
        Call("asarray", self, OtherKey, asarray(views[self], NewId))

\* an object's id after the object with id gone has been freed
Moved(i, gone) == IF i > gone THEN i - 1 ELSE i

\* the heap without the object at position gone
Freed(vs, gone) ==
    [k \in 1..(Len(vs) - 1) |->
        LET v == vs[IF k >= gone THEN k + 1 ELSE k]
        IN [v EXCEPT !.id = Moved(v.id, gone), !.base = Moved(v.base, gone)]]

\* the caller has looked at the outcome of the last call; it keeps the view
\* that was returned in place of the one it held (v = v[...]), and the view
\* it held is freed unless another object still refers to it
Return ==
    /\ last.op # "none"
    /\ last' = NoCall
    /\ views' = IF Len(views) > 2 /\ last.obj # None
                    /\ \A k \in DOMAIN views : views[k].base # 2
                 THEN Freed(views, 2)
                 ELSE views

Init ==
    /\ views \in {<<Root(DtypeA)>>, <<Root(DtypeB)>>}
    /\ last = NoCall

Next ==
    \/ GetItemString
    \/ GetItemList
    \/ GetItemInt
    \/ GetItemSlice
    \/ GetItemTuple
    \/ GetItemOther
    \/ AsArray
    \/ Return

Spec == Init /\ [][Next]_vars

(* ----------------------- get_slice_size, called ------------------------ *)

\* the arguments of a get_slice_size call
SizeArgs(start, stop, step) ==
    [t |-> "size", start |-> start, stop |-> stop, step |-> step]

\* the outcome of get_slice_size: N, or the error of dividing by a zero step
slice_size_call(start, stop, step) ==
    IF step = 0
    THEN Raise("ZeroDivisionError", "divmod by zero", <<>>, None)
    ELSE ReturnArray(None, get_slice_size(start, stop, step))

\* a backend asking for the size of a slice
SliceSizeCall ==
    \E start \in 0..MaxN, stop \in 0..MaxN, step \in (-MaxStep)..MaxN :
        /\ last.op = "none"
        /\ views' = views
        /\ last' = Called("get_slice_size", 0, SizeArgs(start, stop, step),
                          slice_size_call(start, stop, step))

NextSize ==
    \/ SliceSizeCall
    \/ Return

SpecSize == Init /\ [][NextSize]_vars

(* ------------------------------ the claims ----------------------------- *)

\* the object the last call was made on
Self == views[last.self]

\* the number of indices start, start+step, ... strictly below stop
IndexCount(start, stop, step) ==
    Cardinality({i \in start..(stop - 1) : (i - start) % step = 0})

\* C1: for 0 <= start <= stop and step >= 1, get_slice_size(start, stop, step)
\* is the number of indices start, start+step, ... strictly below stop
C1_SliceSizeCounts ==
    (/\ last.op = "get_slice_size"
     /\ last.key.start <= last.key.stop
     /\ last.key.step >= 1)
    => /\ last.status = "ok"
       /\ last.value = Some(IndexCount(last.key.start, last.key.stop, last.key.step))

\* get_slice_size(0, 10, 3) has returned 4
C1_Witness ==
    /\ last.op = "get_slice_size"
    /\ last.key = SizeArgs(0, 10, 3)
    /\ last.value = Some(4)

\* the preconditions of asarray, as the documentation states them
Convertible(v) ==
    /\ v.dtype.structured
    /\ dlen(v.dtype) >= 1
    /\ \A i, j \in DOMAIN v.dtype.fields :
          v.dtype.fields[i].base = v.dtype.fields[j].base
    /\ dlen(v.dtype) > 1 =>
          \A i \in DOMAIN v.dtype.fields : v.dtype.fields[i].shape = <<>>

\* C3: asarray() returns a view exactly when the dtype has a named field, all
\* fields share one base scalar type and, among several fields, none is a
\* vector; otherwise it raises ValueError and no view is produced
C3_AsarrayPreconditions ==
    last.op = "asarray"
    => /\ Convertible(Self) => (last.status = "ok" /\ last.obj # None)
       /\ ~Convertible(Self) =>
             (last.status = "ValueError" /\ last.obj = None)

\* asarray() on a view of a scalar and a vector column has raised ValueError
C3_Witness ==
    /\ last.op = "asarray"
    /\ names(Self.dtype) = <<"a", "p">>
    /\ last.status = "ValueError"
    /\ last.obj = None

\* C9: the root has no base; every derived view's base is the root itself and
\* its size is the root's; every physical read is issued on the root
C9_BaseIsRoot ==
    /\ views[1].base = 0
    /\ \A k \in DOMAIN views :
          k > 1 => (views[k].base = 1 /\ views[k].size = views[1].size)
    /\ last.read # None => last.read[1].on = 1

\* a view has been derived from a derived view, and its base is the root
C9_Witness ==
    /\ last.op \in {"getitem", "asarray"}
    /\ last.self = 2
    /\ last.obj # None
    /\ views[3] = last.obj[1]
    /\ views[3].base = 1

\* what a caller can see of a file object
Seen(v) ==
    [columns |-> columns(v), size |-> v.size, dtype |-> v.dtype,
     shape |-> shape(v), base |-> v.base]

\* C4: a call of column selection, asarray or row/tuple indexing, whether it
\* returns or raises, leaves the view it is called on (and every other
\* object) with the columns, size, dtype, shape and base it had
C4_NoMutation ==
    [][last'.op \in {"getitem", "asarray"}
       => /\ Len(views') >= Len(views)
          /\ \A k \in DOMAIN views : Seen(views'[k]) = Seen(views[k])]_vars

\* view[['zzz']] has raised the invalid-key error
C4_Witness ==
    /\ last.op = "getitem"
    /\ last.key = ListKey(<<"zzz">>)
    /\ last.status = "IndexError"
    /\ last.err = "invalid string keys"

\* the names asked for in the last call
Requested ==
    IF last.key.t = "str" THEN <<last.key.name>> ELSE last.key.items

\* those of the requested names that are no column of the view
TrulyInvalid ==
    LET Bad(n) == ~InSeq(n, keys(Self)) IN SelectSeq(Requested, Bad)

\* C5: the invalid-key error of a selection by names carries exactly the
\* requested names that are not in the view's keys(), and no valid name
C5_InvalidNamesExact ==
    (last.op = "getitem" /\ last.err = "invalid string keys")
    => last.invalid = TrulyInvalid

\* C10: on a view with a flat dtype every access by name raises IndexError,
\* asarray() raises ValueError, no call returns a view, only integer, slice
\* and tuple indexing succeeds; and a flat view's columns are the fields, in
\* order, of the view it was flattened from
C10_FlatIsTerminal ==
    /\ (last.op \in {"getitem", "asarray"} /\ ~Self.dtype.structured)
       => /\ last.obj = None
          /\ last.op = "asarray" => last.status = "ValueError"
          /\ (last.op = "getitem" /\ last.key.t \in {"str", "list"})
                => last.status = "IndexError"
          /\ last.status = "ok"
                => (last.op = "getitem" /\ last.key.t \in {"int", "slice", "tuple"})
    /\ (last.op = "asarray" /\ last.status = "ok")
       => /\ ~last.obj[1].dtype.structured
          /\ columns(last.obj[1]) = names(Self.dtype)
    /\ (last.op = "getitem" /\ last.key.t = "str" /\ last.status = "ok")
       => /\ ~last.obj[1].dtype.structured
          /\ columns(last.obj[1]) = <<last.key.name>>

\* a flat view of two columns was asked for one of them by name, and refused
C10_Witness ==
    /\ last.op = "getitem"
    /\ ~Self.dtype.structured
    /\ columns(Self) = <<"b", "a">>
    /\ last.key = StrKey("a")
    /\ last.status = "IndexError"
    /\ last.err = "after asarray"

\* the row index of the last call: the key, or the first element of a tuple
RowKey == IF last.key.t = "tuple" THEN last.key.elems[1] ELSE last.key

\* the row range a key stands for, written out: an integer i is row i, or
\* row i + size when negative; a slice is what slice.indices(size) gives
RangeOf(k, size) ==
    IF k.t = "int"
    THEN LET r == IF k.i < 0 THEN k.i + size ELSE k.i
         IN [start |-> r, stop |-> r + 1, step |-> 1]
    ELSE slice_indices(k, size)

\* a slice whose step is zero, which slice.indices refuses with a ValueError
ZeroStep(k) == k.t = "slice" /\ k.step = Some(0)

\* C7: a tuple longer than the rank of the view's shape is refused with an
\* IndexError and no read; a tuple of length 1 or 2 within the rank is
\* resolved on the row axis by its first element alone, and a second element
\* indexes the trailing axis of what was read
C7_TupleRank ==
    (last.op = "getitem" /\ last.key.t = "tuple")
    => LET es == last.key.elems
           rank == Len(shape(Self))
       IN /\ Len(es) > rank
                => (last.status = "IndexError" /\ last.err = "file dimension"
                    /\ last.read = None)
          /\ (Len(es) \in {1, 2} /\ Len(es) <= rank)
                => /\ es[1].t \notin {"int", "slice"}
                        => (last.status = "IndexError" /\ last.read = None)
                   /\ (es[1].t \in {"int", "slice"} /\ ~ZeroStep(es[1]))
                        => /\ last.read # None
                           /\ LET t == RangeOf(es[1], Self.size)
                              IN /\ last.read[1].start = t.start
                                 /\ last.read[1].stop = t.stop
                                 /\ last.read[1].step = t.step
                   /\ (Len(es) = 2 /\ last.status = "ok" /\ es[2].t = "int")
                        => LET whole == getitem(Self, es[1], NewId).value[1]
                               n == shape(Self)[2]
                               j == IF es[2].i < 0 THEN es[2].i + n ELSE es[2].i
                           IN last.value[1] = [k \in DOMAIN whole |-> whole[k][j + 1]]

\* a 2-tuple on a column view, whose shape is (size,), has been refused
C7_Witness ==
    /\ last.op = "getitem"
    /\ last.self = 2
    /\ Self.dtype.structured
    /\ last.key = TupleKey(<<FullSlice, IntKey(0)>>)
    /\ last.status = "IndexError"
    /\ last.err = "file dimension"
    /\ last.read = None

\* the read contract of a backend, on the row range
InContract(rd, size) ==
    /\ 0 <= rd.start
    /\ rd.start <= rd.stop
    /\ rd.stop <= size
    /\ rd.step >= 1

\* C8 as stated: every read __getitem__ dispatches has 0 <= start <= stop <=
\* size and step >= 1, whatever integer or slice was given
C8_EveryReadInContract ==
    (last.op = "getitem" /\ last.read # None)
    => InContract(last.read[1], Self.size)

\* a position of a slice with a positive step, as Python clips it
Clipped(x, size) ==
    IF x < 0 THEN (IF x + size < 0 THEN 0 ELSE x + size)
    ELSE (IF x > size THEN size ELSE x)

\* the keys whose row range lies within the read contract
Mappable(k, size) ==
    IF k.t = "int" THEN -size <= k.i /\ k.i < size
    ELSE /\ (k.step = None \/ k.step[1] >= 1)
         /\ (IF k.start = None THEN 0 ELSE Clipped(k.start[1], size))
               <= (IF k.stop = None THEN size ELSE Clipped(k.stop[1], size))

\* the last call was an index on the row axis: an integer, a slice, or a
\* tuple within the rank that starts with one
RowIndexed ==
    /\ last.op = "getitem"
    /\ \/ last.key.t \in {"int", "slice"}
       \/ /\ last.key.t = "tuple"
          /\ Len(last.key.elems) \in {1, 2}
          /\ Len(last.key.elems) <= Len(shape(Self))
          /\ last.key.elems[1].t \in {"int", "slice"}

\* C8, amended: an integer index always leads to a read, a slice unless its
\* step is zero (ValueError, no read); nothing is refused for its range.  The
\* read is within the contract exactly for an integer i with
\* -size <= i < size and for a slice with a positive step whose clipped start
\* is not after its clipped stop
C8_ReadInContractWhenMappable ==
    /\ (last.op = "getitem" /\ last.read # None) => RowIndexed
    /\ RowIndexed
       => /\ last.read = None <=> ZeroStep(RowKey)
          /\ last.read = None => last.status = "ValueError"
          /\ last.read # None
                => /\ InContract(last.read[1], Self.size) <=> Mappable(RowKey, Self.size)
                   /\ RowKey.t = "int"
                         => /\ last.read[1].start \in {RowKey.i, RowKey.i + Self.size}
                            /\ last.read[1].stop = last.read[1].start + 1

\* view[-1] has read the row range [size-1, size) with step 1
C8_Witness ==
    /\ last.op = "getitem"
    /\ last.key = IntKey(-1)
    /\ last.status = "ok"
    /\ last.read # None
    /\ last.read[1].start = Self.size - 1
    /\ last.read[1].stop = Self.size
    /\ last.read[1].step = 1

\* every requested name is a string and a column of the view
AllValid(l, v) == \A i \in DOMAIN l : IsString(l[i]) /\ InSeq(l[i], keys(v))

\* the structured rows a read of the view's own columns must return
OwnRows(v, rd) ==
    LET rr == RowRange(rd.start, rd.stop, rd.step)
        cs == columns(v)
    IN [k \in DOMAIN rr |->
          [c \in DOMAIN cs |->
             [e \in 1..Prod(field(views[1].dtype, cs[c]).shape) |->
                Cell(views[1], rr[k], cs[c], e)]]]

\* every read is given the view's own columns, in their order, and a
\* structured result holds those columns in that order
ReadsOwnColumns ==
    /\ last.read # None => last.read[1].columns = columns(Self)
    /\ (last.op = "getitem" /\ last.status = "ok" /\ last.value # None
        /\ Self.dtype.structured)
       => last.value[1] = OwnRows(Self, last.read[1])

\* C6 as stated: selecting any list l of valid column names of a structured
\* view returns a view whose columns are l, of the same size, and every read
\* is given the view's own columns
C6_AnyValidList ==
    /\ (last.op = "getitem" /\ last.key.t = "list" /\ Self.dtype.structured
        /\ AllValid(last.key.items, Self))
       => /\ last.status = "ok"
          /\ last.obj # None
          /\ columns(last.obj[1]) = last.key.items
          /\ last.obj[1].size = Self.size
    /\ ReadsOwnColumns

\* C6, amended: selecting a list l of valid column names without a repeated
\* name returns a view whose columns are l, of the same size (so selecting
\* all columns in order gives the same columns and size); a list with a
\* repeated name raises ValueError and returns no view; every read is given
\* the view's own columns
C6_DistinctValidList ==
    /\ (last.op = "getitem" /\ last.key.t = "list" /\ Self.dtype.structured
        /\ AllValid(last.key.items, Self))
       => IF NoDup(last.key.items)
          THEN /\ last.status = "ok"
               /\ last.obj # None
               /\ last.obj[1].dtype.structured
               /\ columns(last.obj[1]) = last.key.items
               /\ last.obj[1].size = Self.size
          ELSE last.status = "ValueError" /\ last.obj = None
    /\ ReadsOwnColumns

\* row 0 of the view [['b', 'a']] has been read: the read was given
\* ['b', 'a'] and the record holds b before a
C6_Witness ==
    /\ last.op = "getitem"
    /\ last.self = 2
    /\ Self.dtype.structured
    /\ columns(Self) = <<"b", "a">>
    /\ last.key = IntKey(0)
    /\ last.status = "ok"
    /\ last.read[1].columns = <<"b", "a">>
    /\ last.value = Some(<< << <<Cell(views[1], 0, "b", 1)>>,
                              <<Cell(views[1], 0, "a", 1)>> >> >>)

\* a structured view whose fields share one scalar type and are no vectors
Homogeneous(v) ==
    /\ v.dtype.structured
    /\ dlen(v.dtype) >= 1
    /\ \A i \in DOMAIN v.dtype.fields :
          /\ v.dtype.fields[i].base = v.dtype.fields[1].base
          /\ v.dtype.fields[i].shape = <<>>

\* view.asarray()
FlatOf(v) == asarray(v, NewId).obj[1]

\* view[columns[i]] read over all rows
ColumnOf(v, i) ==
    getitem(getitem(v, StrKey(columns(v)[i]), NewId).obj[1], FullSlice, NewId).value[1]

\* view.asarray() has the shape (size, ncol), and its column i, read as
\* [:, i], is view[columns[i]]
RoundTrip(v) ==
    /\ shape(FlatOf(v)) = <<v.size, ncol(v)>>
    /\ \A i \in 1..ncol(v) :
          LET out == getitem(FlatOf(v), TupleKey(<<FullSlice, IntKey(i - 1)>>), NewId)
          IN out.status = "ok" /\ out.value[1] = ColumnOf(v, i)

\* C2 as stated: the round trip holds for every such view, of one column too
C2_RoundTripAnyNcol ==
    \A k \in DOMAIN views : Homogeneous(views[k]) => RoundTrip(views[k])

\* C2, amended: the round trip holds for such a view of two or more columns;
\* for one of a single column asarray() has the shape (size,), [:, 0] is
\* refused with an IndexError, and [:] is view[columns[0]]
C2_RoundTripSeveralColumns ==
    \A k \in DOMAIN views :
        Homogeneous(views[k])
        => IF ncol(views[k]) >= 2 THEN RoundTrip(views[k])
           ELSE /\ shape(FlatOf(views[k])) = <<views[k].size>>
                /\ LET out == getitem(FlatOf(views[k]),
                                      TupleKey(<<FullSlice, IntKey(0)>>), NewId)
                   IN out.status = "IndexError" /\ out.read = None
                /\ getitem(FlatOf(views[k]), FullSlice, NewId).value[1]
                      = ColumnOf(views[k], 1)

\* [:, 1] of view[['b', 'a']].asarray() has returned column a of both rows
C2_Witness ==
    /\ last.op = "getitem"
    /\ ~Self.dtype.structured
    /\ columns(Self) = <<"b", "a">>
    /\ shape(Self) = <<RootSize, 2>>
    /\ last.key = TupleKey(<<FullSlice, IntKey(1)>>)
    /\ last.status = "ok"
    /\ last.value = Some([r \in 1..RootSize |-> Cell(views[1], r - 1, "a", 1)])

====
